---- MODULE Spec2Model ----
(***************************************************************************)
(* Model of src/back_end.py: the depth-first enumeration of routes          *)
(* (get_all_paths_with_sequential_time / find_paths), the per-path journey  *)
(* simulation (num_of_days_to_wait, compute_probas_per_path) and the        *)
(* aggregation in calculate_odds.                                           *)
(*                                                                          *)
(* Probabilities are exact rationals with the fixed denominator Scale: the  *)
(* integer p stands for p / Scale.  Planets are integers; planet 0 is the   *)
(* departure.                                                               *)
(***************************************************************************)
EXTENDS Integers, Sequences, FiniteSets, TLC

\* ---------------------------------------------------------------- bounds
MaxSteps == 2          \* longest path simulated; planets are 0..MaxSteps
MaxEdges == 3          \* rows of the ROUTES table
MaxHunters == 3        \* entries of bounty_hunters
MaxCountdown == 4      \* largest countdown; sightings fall on days 1..MaxCountdown

Planets == 0..MaxSteps
Times == {1, 2}        \* travel times drawn for the edges
Autonomies == {1, 2}   \* base autonomies drawn
Days == 1..MaxCountdown

\* The end-to-end scenarios of the specification (one edge of travel_time 6,
\* autonomy 6, countdown 7 or 5, a sighting on day 6 at the arrival planet).
Scenario == [travel_time |-> 6, autonomy |-> 6, countdowns |-> {5, 7}, days |-> {6, 7}]

\* Probabilities are kept as integers over the denominator Scale = 10^Digits;
\* a path of n steps meets at most 2n sightings.
Digits == 2 * MaxSteps
RECURSIVE Pow(_, _)
Pow(b, e) == IF e = 0 THEN 1 ELSE b * Pow(b, e - 1)
Scale == Pow(10, Digits)

Max(a, b) == IF a >= b THEN a ELSE b

RECURSIVE SubsetsUpTo(_, _)
SubsetsUpTo(S, k) ==
    IF k = 0 THEN {{}}
    ELSE LET P == SubsetsUpTo(S, k - 1) IN P \cup {p \cup {x} : p \in P, x \in S}

RECURSIVE SumSeq(_)
SumSeq(s) == IF s = <<>> THEN 0 ELSE Head(s) + SumSeq(Tail(s))

RECURSIVE MaxSeq(_)
MaxSeq(s) == IF Len(s) = 1 THEN s[1] ELSE Max(Head(s), MaxSeq(Tail(s)))

VARIABLES
    \* get_all_paths_with_sequential_time
    ROUTES,                  \* the ROUTES table, a sequence of rows
    origin, destination,
    stack,                   \* the active find_paths generator frames
    all_paths,               \* the paths yielded so far, in order
    \* calculate_odds
    pc,
    base_autonomy, countdown, bounty_hunters,
    all_paths_stops, all_paths_times,
    odds, outcome,
    \* compute_probas_per_path
    all_paths_probabilities, i,
    j, total_time, probability, autonomy, count_bounty, num_wait,
    \* history of the path being simulated
    discounts,               \* the amounts subtracted from probability, in order
    waited                   \* the iterations of the two wait loops

enumVars == <<ROUTES, origin, destination, stack, all_paths>>
missionVars == <<base_autonomy, countdown, bounty_hunters>>
splitVars == <<all_paths_stops, all_paths_times>>
resultVars == <<odds, outcome>>
simVars == <<j, total_time, probability, autonomy, count_bounty, num_wait>>
histVars == <<discounts, waited>>
vars == <<enumVars, pc, missionVars, splitVars, resultVars,
          all_paths_probabilities, i, simVars, histVars>>

\* ------------------------------------------------------ the ROUTES table
Row(o, d, t) == [origin |-> o, destination |-> d, travel_time |-> t]
RowRank(r) == (r.origin * (MaxSteps + 1) + r.destination) * (Scenario.travel_time + 1)
              + r.travel_time

\* A set of rows as a table, in rowid order.
RECURSIVE TableOf(_)
TableOf(S) ==
    IF S = {} THEN <<>>
    ELSE LET r == CHOOSE x \in S : \A y \in S : RowRank(x) <= RowRank(y)
         IN <<r>> \o TableOf(S \ {r})

RECURSIVE SelectRows(_, _, _)
\* SELECT <other>, travel_time FROM ROUTES WHERE <field> = node
SelectRows(table, field, node) ==
    IF table = <<>> THEN <<>>
    ELSE LET r == Head(table)
             rest == SelectRows(Tail(table), field, node)
         IN IF field = "origin" /\ r.origin = node
               THEN <<(<<r.destination, r.travel_time>>)>> \o rest
            ELSE IF field = "destination" /\ r.destination = node
               THEN <<(<<r.origin, r.travel_time>>)>> \o rest
            ELSE rest

forward_rows(current_node) == SelectRows(ROUTES, "origin", current_node)

backward_rows_none(current_node) == <<>>
backward_rows(current_node) == SelectRows(ROUTES, "destination", current_node)

\* ------------------------------------------------------------ find_paths
PathNodes(path) == {path[k][1] : k \in 1..Len(path)}

NotInPath_last(node, path) == node /= path[Len(path)][1]
\* next_node not in [node for node, _ in path]
NotInPath(node, path) == node \notin PathNodes(path)

YieldedPath_whole(path) == path
\* yield path[1:]
YieldedPath(path) == Tail(path)

Frame(node, time, path) ==
    [current_node |-> node, current_time |-> time, path |-> path, at |-> "enter",
     forward_rows |-> <<>>, backward_rows |-> <<>>]

Top == stack[Len(stack)]
Pop == SubSeq(stack, 1, Len(stack) - 1)
Enumerating == pc = "find_paths" /\ stack /= <<>>

otherVars == <<pc, missionVars, splitVars, resultVars, all_paths_probabilities, i,
               simVars, histVars>>

\* lines 22-25: the current node is the destination
FindPathsYield ==
    /\ Enumerating /\ Top.at = "enter" /\ Top.current_node = destination
    /\ LET path == Top.path \o <<(<<Top.current_node, Top.current_time>>)>>
       IN all_paths' = Append(all_paths, YieldedPath(path))
    /\ stack' = Pop
    /\ UNCHANGED <<ROUTES, origin, destination, otherVars>>

\* lines 22, 26-31: extend the path and query the neighbours
FindPathsFetch ==
    /\ Enumerating /\ Top.at = "enter" /\ Top.current_node /= destination
    /\ stack' = [stack EXCEPT ![Len(stack)] =
                    [@ EXCEPT !.path = @ \o <<(<<Top.current_node, Top.current_time>>)>>,
                              !.at = "forward",
                              !.forward_rows = forward_rows(Top.current_node),
                              !.backward_rows = backward_rows(Top.current_node)]]
    /\ UNCHANGED <<ROUTES, origin, destination, all_paths, otherVars>>

\* lines 33-37: one iteration of the loop over forward_rows
ForwardRow ==
    /\ Enumerating /\ Top.at = "forward" /\ Top.forward_rows /= <<>>
    /\ LET row == Head(Top.forward_rows)
           rest == [stack EXCEPT ![Len(stack)].forward_rows = Tail(@)]
       IN stack' = IF NotInPath(row[1], Top.path)
                      THEN Append(rest, Frame(row[1], row[2], Top.path))
                      ELSE rest
    /\ UNCHANGED <<ROUTES, origin, destination, all_paths, otherVars>>

\* line 33 exhausted: go on to the loop over backward_rows
ForwardDone ==
    /\ Enumerating /\ Top.at = "forward" /\ Top.forward_rows = <<>>
    /\ stack' = [stack EXCEPT ![Len(stack)].at = "backward"]
    /\ UNCHANGED <<ROUTES, origin, destination, all_paths, otherVars>>

\* lines 39-43: one iteration of the loop over backward_rows
BackwardRow ==
    /\ Enumerating /\ Top.at = "backward" /\ Top.backward_rows /= <<>>
    /\ LET row == Head(Top.backward_rows)
           rest == [stack EXCEPT ![Len(stack)].backward_rows = Tail(@)]
       IN stack' = IF NotInPath(row[1], Top.path)
                      THEN Append(rest, Frame(row[1], row[2], Top.path))
                      ELSE rest
    /\ UNCHANGED <<ROUTES, origin, destination, all_paths, otherVars>>

\* line 39 exhausted: the generator frame ends
FindPathsReturn ==
    /\ Enumerating /\ Top.at = "backward" /\ Top.backward_rows = <<>>
    /\ stack' = Pop
    /\ UNCHANGED <<ROUTES, origin, destination, all_paths, otherVars>>

\* lines 46-51: list(find_paths(origin)) is complete
PathsReturned ==
    /\ pc = "find_paths" /\ stack = <<>>
    /\ pc' = "split"
    /\ UNCHANGED <<enumVars, missionVars, splitVars, resultVars,
                   all_paths_probabilities, i, simVars, histVars>>

EnumNext ==
    \/ FindPathsYield
    \/ FindPathsFetch
    \/ ForwardRow
    \/ ForwardDone
    \/ BackwardRow
    \/ FindPathsReturn
    \/ PathsReturned

\* The state of calculate_odds and compute_probas_per_path before they run.
IdleRest ==
    /\ all_paths_stops = <<>> /\ all_paths_times = <<>>
    /\ odds = 0 /\ outcome = "none"
    /\ all_paths_probabilities = <<>> /\ i = 1
    /\ j = 1 /\ total_time = 0 /\ probability = Scale /\ autonomy = 0
    /\ count_bounty = 0 /\ num_wait = 0
    /\ discounts = <<>> /\ waited = 0

AllRows(times) == {Row(o, d, t) : o \in Planets, d \in Planets, t \in times}

\* line 46: find_paths(origin) is called with current_time = 0 and path = []
EnumInit ==
    /\ ROUTES \in {TableOf(S) : S \in SubsetsUpTo(AllRows(Times), MaxEdges)}
    /\ origin = 0
    /\ destination \in Planets
    /\ stack = <<Frame(origin, 0, <<>>)>>
    /\ all_paths = <<>>
    /\ pc = "find_paths"
    /\ base_autonomy = 1 /\ countdown = 0 /\ bounty_hunters = {}
    /\ IdleRest

SpecEnum == EnumInit /\ [][EnumNext]_vars

\* ------------------------------------------------- the journey simulation
\* A mission m is [stops, times, base_autonomy, countdown, bounty_hunters,
\* origin_station]: one path and the arguments of compute_probas_per_path.
\* A simulation state s is [pc, j, total_time, probability, autonomy,
\* count_bounty, num_wait]: the locals of the loop body for that path.

compute_probability_tenth(count) == Pow(10, Digits - count - 1)
compute_probability_flat(count) == Pow(10, Digits - 1)
\* 9**(count_bounty)/10**(count_bounty+1), over the denominator Scale
compute_probability(count) ==
    Pow(9, count) * Pow(10, Digits - count - 1)

check_bounty(hunters, day, planet) ==
    \E hunter \in hunters : hunter.day = day /\ hunter.planet = planet

RECURSIVE BaselineLoop(_, _, _, _)
\* the loop of num_of_days_to_wait, from the state (aut, total) on
BaselineLoop(base, path_times, aut, total) ==
    IF path_times = <<>> THEN total
    ELSE LET t == Head(path_times)
         IN IF aut >= t
               THEN BaselineLoop(base, Tail(path_times), aut - t, total + t)
               ELSE BaselineLoop(base, Tail(path_times), base - t, total + 1 + t)

\* total_time at the end of num_of_days_to_wait's loop
baseline_total_time(base, path_times) == BaselineLoop(base, path_times, base, 0)

num_of_days_to_wait(base, path_times, cd) ==
    Max(cd - baseline_total_time(base, path_times), 0)

\* lines 118-124
StartPathStep(m) ==
    [pc |-> "for_j", j |-> 1, total_time |-> 0, probability |-> Scale,
     autonomy |-> m.base_autonomy, count_bounty |-> 0,
     num_wait |-> num_of_days_to_wait(m.base_autonomy, m.times, m.countdown)]

\* lines 127-129
current_planet(m, s) == IF s.j > 1 THEN m.stops[s.j - 1] ELSE m.origin_station
planet_to_travel_to(m, s) == m.stops[s.j]
time_to_planet(m, s) == m.times[s.j]

\* line 132
HasFuel(m, s) == s.autonomy >= time_to_planet(m, s)

\* lines 133-134
TravelStep(m, s) ==
    [s EXCEPT !.autonomy = @ - time_to_planet(m, s),
              !.total_time = @ + time_to_planet(m, s),
              !.pc = "wait_a"]

\* lines 149-150
RefuelStep(m, s) ==
    [s EXCEPT !.total_time = @ + 1, !.autonomy = m.base_autonomy, !.pc = "refuel_check"]

\* probability -= compute_probability(count_bounty); count_bounty += 1
Discount(s) ==
    [s EXCEPT !.probability = @ - compute_probability(s.count_bounty),
              !.count_bounty = @ + 1]

WaitACond_never(m, s) == FALSE
\* line 137, the condition of the first wait loop
WaitACond(m, s) ==
    /\ check_bounty(m.bounty_hunters, s.total_time, planet_to_travel_to(m, s))
    /\ s.num_wait > 0

WaitBCond_nobudget(m, s) ==
    /\ check_bounty(m.bounty_hunters, s.total_time, planet_to_travel_to(m, s))
    /\ ~check_bounty(m.bounty_hunters, s.total_time, current_planet(m, s))
\* line 162, the condition of the second wait loop
WaitBCond(m, s) ==
    /\ check_bounty(m.bounty_hunters, s.total_time, planet_to_travel_to(m, s))
    /\ ~check_bounty(m.bounty_hunters, s.total_time, current_planet(m, s))
    /\ s.num_wait > 0

\* lines 138-139 and 163-164, the body of either wait loop
WaitStep(s) == [s EXCEPT !.total_time = @ + 1, !.num_wait = @ - 1]

\* lines 142-144 and 166-168, then the next iteration of the loop over j
CheckArrivalStep(m, s) ==
    LET d == IF check_bounty(m.bounty_hunters, s.total_time, planet_to_travel_to(m, s))
                THEN Discount(s) ELSE s
    IN [d EXCEPT !.j = @ + 1, !.pc = "for_j"]

\* lines 153-159
RefuelCheckStep(m, s) ==
    LET d == IF check_bounty(m.bounty_hunters, s.total_time, current_planet(m, s))
                THEN Discount(s) ELSE s
    IN [d EXCEPT !.total_time = @ + time_to_planet(m, s),
                 !.autonomy = @ - time_to_planet(m, s),
                 !.pc = "wait_b"]

PostStep_geq(m, s) ==
    [s EXCEPT !.probability = IF s.total_time >= m.countdown THEN 0 ELSE @,
              !.pc = "for_i"]
\* lines 171-172
PostStep(m, s) ==
    [s EXCEPT !.probability = IF s.total_time > m.countdown THEN 0 ELSE @,
              !.pc = "for_i"]

\* One step of the body of the loop over the paths, lines 126-172.
SimStep(m, s) ==
    CASE s.pc = "for_j" /\ s.j <= Len(m.stops) ->
            IF HasFuel(m, s) THEN TravelStep(m, s) ELSE RefuelStep(m, s)
      [] s.pc = "for_j" /\ s.j > Len(m.stops) -> PostStep(m, s)
      [] s.pc = "wait_a" ->
            IF WaitACond(m, s) THEN WaitStep(s) ELSE CheckArrivalStep(m, s)
      [] s.pc = "refuel_check" -> RefuelCheckStep(m, s)
      [] s.pc = "wait_b" ->
            IF WaitBCond(m, s) THEN WaitStep(s) ELSE CheckArrivalStep(m, s)

RECURSIVE RunSim(_, _)
RunSim(m, s) == IF s.pc = "for_i" THEN s ELSE RunSim(m, SimStep(m, s))

\* The value appended at line 175 for the path of mission m.
path_probability(m) == RunSim(m, StartPathStep(m)).probability

\* -------------------------------------------- compute_probas_per_path
Mission(k, cd) ==
    [stops |-> all_paths_stops[k], times |-> all_paths_times[k],
     base_autonomy |-> base_autonomy, countdown |-> cd,
     bounty_hunters |-> bounty_hunters, origin_station |-> origin]

M == Mission(i, countdown)
S == [pc |-> pc, j |-> j, total_time |-> total_time, probability |-> probability,
      autonomy |-> autonomy, count_bounty |-> count_bounty, num_wait |-> num_wait]

SetSim(s) ==
    /\ pc' = s.pc /\ j' = s.j /\ total_time' = s.total_time
    /\ probability' = s.probability /\ autonomy' = s.autonomy
    /\ count_bounty' = s.count_bounty /\ num_wait' = s.num_wait
    /\ discounts' = IF s.count_bounty > count_bounty
                       THEN Append(discounts, probability - s.probability)
                       ELSE discounts

fixedVars == <<enumVars, missionVars, splitVars, resultVars>>

\* lines 117-124: the next path, its locals and its wait budget
StartPath ==
    /\ pc = "for_i" /\ i <= Len(all_paths_stops)
    /\ SetSim(StartPathStep(M))
    /\ waited' = 0
    /\ UNCHANGED <<fixedVars, all_paths_probabilities, i>>

\* lines 132-134: enough fuel for the next hop
Travel ==
    /\ pc = "for_j" /\ j <= Len(M.stops) /\ HasFuel(M, S)
    /\ SetSim(TravelStep(M, S))
    /\ UNCHANGED <<fixedVars, all_paths_probabilities, i, waited>>

\* lines 148-150: not enough fuel, a day is spent refuelling
Refuel ==
    /\ pc = "for_j" /\ j <= Len(M.stops) /\ ~HasFuel(M, S)
    /\ SetSim(RefuelStep(M, S))
    /\ UNCHANGED <<fixedVars, all_paths_probabilities, i, waited>>

\* lines 137-139: one day of waiting in the fuel branch
WaitA ==
    /\ pc = "wait_a" /\ WaitACond(M, S)
    /\ SetSim(WaitStep(S))
    /\ waited' = waited + 1
    /\ UNCHANGED <<fixedVars, all_paths_probabilities, i>>

\* lines 142-144: the arrival check of the fuel branch
CheckA ==
    /\ pc = "wait_a" /\ ~WaitACond(M, S)
    /\ SetSim(CheckArrivalStep(M, S))
    /\ UNCHANGED <<fixedVars, all_paths_probabilities, i, waited>>

\* lines 153-159: the check at the refuelling planet, then the hop
RefuelCheck ==
    /\ pc = "refuel_check"
    /\ SetSim(RefuelCheckStep(M, S))
    /\ UNCHANGED <<fixedVars, all_paths_probabilities, i, waited>>

\* lines 162-164: one day of waiting in the refuel branch
WaitB ==
    /\ pc = "wait_b" /\ WaitBCond(M, S)
    /\ SetSim(WaitStep(S))
    /\ waited' = waited + 1
    /\ UNCHANGED <<fixedVars, all_paths_probabilities, i>>

\* lines 166-168: the arrival check of the refuel branch
CheckB ==
    /\ pc = "wait_b" /\ ~WaitBCond(M, S)
    /\ SetSim(CheckArrivalStep(M, S))
    /\ UNCHANGED <<fixedVars, all_paths_probabilities, i, waited>>

\* lines 171-175: the countdown test, and the path's probability is appended
PostAppend ==
    /\ pc = "for_j" /\ j > Len(M.stops)
    /\ SetSim(PostStep(M, S))
    /\ all_paths_probabilities' = Append(all_paths_probabilities, probability')
    /\ i' = i + 1
    /\ UNCHANGED <<fixedVars, waited>>

\* line 177
ReturnProbas ==
    /\ pc = "for_i" /\ i > Len(all_paths_stops)
    /\ pc' = "max"
    /\ UNCHANGED <<fixedVars, all_paths_probabilities, i, simVars, histVars>>

SimNext ==
    \/ StartPath
    \/ Travel
    \/ Refuel
    \/ WaitA
    \/ CheckA
    \/ RefuelCheck
    \/ WaitB
    \/ CheckB
    \/ PostAppend
    \/ ReturnProbas

HunterCells(days, planets) == {[day |-> d, planet |-> p] : d \in days, p \in planets}

\* The sightings the walk of the path 1, 2, ..., n can read: planet p is not
\* reached before day p, every travel time being at least 1.
ReadableCells(n) == {c \in HunterCells(Days, 0..n) : c.day >= c.planet}

\* compute_probas_per_path called with one simple path 1, 2, ..., n from planet 0
SimInit ==
    /\ ROUTES = <<>> /\ origin = 0 /\ stack = <<>> /\ all_paths = <<>>
    /\ \E n \in 1..MaxSteps :
          /\ destination = n
          /\ all_paths_stops = <<[k \in 1..n |-> k]>>
          /\ \E times \in [1..n -> Times] : all_paths_times = <<times>>
    /\ base_autonomy \in Autonomies
    /\ countdown \in 0..MaxCountdown
    /\ bounty_hunters \in SubsetsUpTo(ReadableCells(destination), MaxHunters)
    /\ pc = "for_i"
    /\ odds = 0 /\ outcome = "none"
    /\ all_paths_probabilities = <<>> /\ i = 1
    /\ j = 1 /\ total_time = 0 /\ probability = Scale /\ autonomy = 0
    /\ count_bounty = 0 /\ num_wait = 0
    /\ discounts = <<>> /\ waited = 0

SpecSim == SimInit /\ [][SimNext]_vars

\* -------------------------------------------------------- calculate_odds
Column(path, c) == [n \in 1..Len(path) |-> path[n][c]]

\* lines 214-219: every path is unzipped into its stops and its travel times
SplitPaths ==
    /\ pc = "split" /\ \A k \in 1..Len(all_paths) : all_paths[k] /= <<>>
    /\ all_paths_stops' = [k \in 1..Len(all_paths) |-> Column(all_paths[k], 1)]
    /\ all_paths_times' = [k \in 1..Len(all_paths) |-> Column(all_paths[k], 2)]
    /\ pc' = "probas"
    /\ UNCHANGED <<enumVars, missionVars, resultVars, all_paths_probabilities, i,
                   simVars, histVars>>

\* line 215: zip(*path) of a path without steps yields nothing to unpack
SplitError ==
    /\ pc = "split" /\ \E k \in 1..Len(all_paths) : all_paths[k] = <<>>
    /\ outcome' = "ValueError" /\ pc' = "done"
    /\ UNCHANGED <<enumVars, missionVars, splitVars, odds, all_paths_probabilities, i,
                   simVars, histVars>>

\* lines 223-225: the call of compute_probas_per_path, run to its return
ComputeProbas ==
    /\ pc = "probas"
    /\ all_paths_probabilities' =
          [k \in 1..Len(all_paths_stops) |-> path_probability(Mission(k, countdown))]
    /\ pc' = "max"
    /\ UNCHANGED <<enumVars, missionVars, splitVars, resultVars, i, simVars, histVars>>

\* lines 228-231 with at least one path
MaxOdds ==
    /\ pc = "max" /\ all_paths_probabilities /= <<>>
    /\ odds' = MaxSeq(all_paths_probabilities) * 100
    /\ outcome' = "value" /\ pc' = "done"
    /\ UNCHANGED <<enumVars, missionVars, splitVars, all_paths_probabilities, i,
                   simVars, histVars>>

MaxError_default ==
    /\ pc = "max" /\ all_paths_probabilities = <<>>
    /\ odds' = 0 /\ outcome' = "value" /\ pc' = "done"
    /\ UNCHANGED <<enumVars, missionVars, splitVars, all_paths_probabilities, i,
                   simVars, histVars>>
\* line 228 with no path: max() of an empty list raises
MaxError ==
    /\ pc = "max" /\ all_paths_probabilities = <<>>
    /\ outcome' = "ValueError" /\ pc' = "done"
    /\ UNCHANGED <<enumVars, missionVars, splitVars, odds, all_paths_probabilities, i,
                   simVars, histVars>>

OddsNext ==
    \/ FindPathsYield
    \/ FindPathsFetch
    \/ ForwardRow
    \/ ForwardDone
    \/ BackwardRow
    \/ FindPathsReturn
    \/ PathsReturned
    \/ SplitPaths
    \/ SplitError
    \/ ComputeProbas
    \/ MaxOdds
    \/ MaxError

\* calculate_odds on the scenario family: every edge takes Scenario.travel_time,
\* at most one sighting, at the arrival planet.
OddsInit ==
    /\ ROUTES \in {TableOf(R) : R \in SubsetsUpTo(AllRows({Scenario.travel_time}), MaxEdges)}
    /\ origin = 0
    /\ destination \in Planets
    /\ stack = <<Frame(origin, 0, <<>>)>>
    /\ all_paths = <<>>
    /\ pc = "find_paths"
    /\ base_autonomy = Scenario.autonomy
    /\ countdown \in Scenario.countdowns
    /\ bounty_hunters \in SubsetsUpTo(HunterCells(Scenario.days, {destination}), 1)
    /\ IdleRest

SpecOdds == OddsInit /\ [][OddsNext]_vars

\* ================================================================ claims

\* The spec's scenario 2: two planets joined by one edge of travel_time 6,
\* autonomy 6, countdown 7 and one sighting on day 6 at the arrival planet.
Scenario2 ==
    /\ origin /= destination
    /\ Len(ROUTES) = 1
    /\ ROUTES[1].travel_time = 6
    /\ {ROUTES[1].origin, ROUTES[1].destination} = {origin, destination}
    /\ base_autonomy = 6 /\ countdown = 7
    /\ bounty_hunters = {[day |-> 6, planet |-> destination]}

\* C1 as stated: on scenario 2, calculate_odds returns 10%.
C1_ScenarioTwoTenPercent ==
    (Scenario2 /\ pc = "done") => (outcome = "value" /\ odds = 10 * Scale)

\* C1 amended: on scenario 2, calculate_odds returns 100%: the one day of
\* wait budget is spent letting the sighting pass, and no discount is applied.
C1_ScenarioTwoHundredPercent ==
    (Scenario2 /\ pc = "done") => (outcome = "value" /\ odds = 100 * Scale)

C1_Witness == Scenario2 /\ pc = "done" /\ outcome = "value"

\* In SpecSim the single path has been simulated and appended.
Finished == i > 1

\* C2 as stated: with the path, the autonomy and the sightings fixed, the
\* probability for countdown c2 is at least the one for every c1 <= c2.
C2_MonotoneInCountdown ==
    Finished =>
        \A c1 \in 0..countdown :
            path_probability(Mission(1, c1)) <= all_paths_probabilities[1]

\* C3: the value appended for a path is 0 when the final total_time exceeds
\* countdown, and otherwise 1 minus the discounts accumulated on the way.
C3_LatePathIsZero ==
    Finished =>
        /\ total_time > countdown => all_paths_probabilities[1] = 0
        /\ total_time <= countdown =>
              all_paths_probabilities[1] = Scale - SumSeq(discounts)

C3_Witness ==
    Finished /\ total_time > countdown /\ Len(discounts) >= 2
    /\ all_paths_probabilities[1] = 0

\* C4: when find_paths yields nothing, calculate_odds never returns a value and
\* ends by raising; a value of 0 is returned only when some path exists.
C4_NoPathRaises ==
    /\ all_paths = <<>> => outcome /= "value"
    /\ (pc = "done" /\ all_paths = <<>>) => outcome = "ValueError"
    /\ (pc = "done" /\ outcome = "value") => all_paths /= <<>>

C4_Witness ==
    pc = "done" /\ all_paths = <<>> /\ ROUTES /= <<>> /\ outcome = "ValueError"

NoRepeat(path) ==
    \A a, b \in 1..Len(path) : a /= b => path[a][1] /= path[b][1]

\* C5: no yielded path repeats a planet or contains the origin as a step, and
\* the partial path carried by every find_paths frame repeats no planet, the
\* node a frame is entered with not being on the path it was called with.
C5_PathsAreSimple ==
    /\ \A k \in 1..Len(all_paths) :
          NoRepeat(all_paths[k]) /\ origin \notin PathNodes(all_paths[k])
    /\ \A f \in 1..Len(stack) :
          /\ NoRepeat(stack[f].path)
          /\ stack[f].at = "enter" => stack[f].current_node \notin PathNodes(stack[f].path)

\* The second hop of the path can only have been made against a stored edge.
BackwardOnly(path) ==
    /\ \E k \in 1..Len(ROUTES) :
          ROUTES[k].origin = path[2][1] /\ ROUTES[k].destination = path[1][1]
    /\ \A k \in 1..Len(ROUTES) :
          ~(ROUTES[k].origin = path[1][1] /\ ROUTES[k].destination = path[2][1])

C5_Witness ==
    /\ pc = "split" /\ Len(ROUTES) = MaxEdges
    /\ \E k \in 1..Len(all_paths) : Len(all_paths[k]) = 2 /\ BackwardOnly(all_paths[k])
    /\ \E k \in 1..Len(ROUTES) : ROUTES[k].destination = origin

\* An edge of time t is stored between a and b, in either direction.
Linked(a, b, t) ==
    \E k \in 1..Len(ROUTES) :
        /\ ROUTES[k].travel_time = t
        /\ \/ ROUTES[k].origin = a /\ ROUTES[k].destination = b
           \/ ROUTES[k].origin = b /\ ROUTES[k].destination = a

RouteTimes == {ROUTES[k].travel_time : k \in 1..Len(ROUTES)}

\* The sequences of distinct planets that leave the origin and end at the
\* destination.
PlanetSeqs ==
    {q \in UNION {[1..n -> Planets \ {origin}] : n \in 1..MaxSteps} :
        /\ q[Len(q)] = destination
        /\ \A a, b \in 1..Len(q) : a /= b => q[a] /= q[b]}

\* The simple paths from origin to destination over the undirected reading of
\* ROUTES, as sequences of (planet, travel_time) steps.
SimplePaths ==
    UNION {
        {[n \in 1..Len(q) |-> <<q[n], ts[n]>>] :
            ts \in {u \in [1..Len(q) -> RouteTimes] :
                      \A n \in 1..Len(q) :
                          Linked(IF n = 1 THEN origin ELSE q[n - 1], q[n], u[n])}}
        : q \in PlanetSeqs}

\* C6: for origin /= destination the paths returned are exactly the simple
\* paths of the undirected reading, each step with the time of its edge.
C6_EnumerationExhaustive ==
    (pc = "split" /\ origin /= destination) =>
        {all_paths[k] : k \in 1..Len(all_paths)} = SimplePaths

C6_Witness ==
    /\ pc = "split" /\ origin /= destination
    /\ Cardinality(SimplePaths) >= 2
    /\ \E k \in 1..Len(all_paths) : Len(all_paths[k]) = 2 /\ BackwardOnly(all_paths[k])

\* C7 as stated: with encounters 0..k (that is count_bounty = k + 1) the total
\* subtracted is 1 - 9^k / 10^k.
C7_TotalDiscountAsStated ==
    count_bounty >= 1 =>
        SumSeq(discounts) =
            Scale - Pow(9, count_bounty - 1) * Pow(10, Digits - (count_bounty - 1))

\* C7 amended: with encounters 0..k the total subtracted is 1 - 9^(k+1)/10^(k+1)
\* (1 - (9/10)^n after n encounters); it is at most 1, and the probability
\* returned is >= 0 when the final total_time is <= countdown.
C7_TotalDiscount ==
    /\ Len(discounts) = count_bounty
    /\ SumSeq(discounts) = Scale - Pow(9, count_bounty) * Pow(10, Digits - count_bounty)
    /\ SumSeq(discounts) <= Scale
    /\ (Finished /\ total_time <= countdown) =>
          /\ all_paths_probabilities[1] = Scale - SumSeq(discounts)
          /\ all_paths_probabilities[1] >= 0

C7_Witness == Finished /\ total_time <= countdown /\ count_bounty >= 2

\* C8 as stated: the first encounter subtracts 0.9 and the second 0.09, each
\* later one less than the one before.
C8_PenaltiesAsStated ==
    /\ Len(discounts) >= 1 => 10 * discounts[1] = 9 * Scale
    /\ Len(discounts) >= 2 => 100 * discounts[2] = 9 * Scale
    /\ \A k \in 2..Len(discounts) : discounts[k] < discounts[k - 1]

\* C8 amended: the first encounter subtracts 0.1 and the second 0.09, each
\* later one less than the one before.
C8_Penalties ==
    /\ Len(discounts) >= 1 => 10 * discounts[1] = Scale
    /\ Len(discounts) >= 2 => 100 * discounts[2] = 9 * Scale
    /\ \A k \in 2..Len(discounts) : discounts[k] < discounts[k - 1]

C8_Witness == Len(discounts) >= 3

\* A path is being simulated, or the last one has just been appended.
InMainPass == pc \in {"for_j", "wait_a", "refuel_check", "wait_b"} \/ Finished

\* C9: the budget left is never negative, the wait days taken never exceed the
\* budget computed once by num_of_days_to_wait, and the final total_time is the
\* no-waiting baseline plus the wait days taken.
C9_OneWaitPool ==
    InMainPass =>
        LET baseline == baseline_total_time(base_autonomy, all_paths_times[1])
            wait_budget == Max(countdown - baseline, 0)
        IN /\ num_wait >= 0
           /\ waited <= wait_budget
           /\ waited + num_wait = wait_budget
           /\ Finished => total_time = baseline + waited

\* The budget was used up on a path of two hops, one of them after a refuel.
C9_Witness ==
    /\ Finished /\ waited >= 1 /\ num_wait = 0 /\ Len(all_paths_times[1]) = 2
    /\ baseline_total_time(base_autonomy, all_paths_times[1]) > SumSeq(all_paths_times[1])

\* C10 as stated: with origin = destination and no self-loop stored, the
\* enumeration returns no path at all.
C10_SamePlanetNoPath ==
    (pc = "split" /\ origin = destination
        /\ \A k \in 1..Len(ROUTES) : ROUTES[k].origin /= ROUTES[k].destination)
    => all_paths = <<>>

\* C10 amended: with origin = destination the enumeration returns exactly one
\* path, which has no steps; an unreachable destination returns no path.
C10_SamePlanetEmptyPath ==
    /\ (pc = "split" /\ origin = destination) => all_paths = << <<>> >>
    /\ (pc = "split" /\ origin /= destination /\ SimplePaths = {}) => all_paths = <<>>

C10_Witness ==
    /\ pc = "split" /\ origin = destination /\ Len(all_paths) = 1
    /\ ROUTES /= <<>>
    /\ \A k \in 1..Len(ROUTES) : ROUTES[k].origin /= ROUTES[k].destination
====
